---- MODULE Spec2Model ----
(***************************************************************************)
(* Model of WearAHat (src/yunjis-crown/src/app.ts): the hat database       *)
(* loaded at session start, the hat menu, and the per-user attached hats.  *)
(*                                                                         *)
(* Numbers are in tenths (1.5 is 15, 3 is 30); an absent JSON field and    *)
(* the JavaScript value undefined are the empty tuple << >> (vectors) or   *)
(* the empty string (resourceId); both are falsy in the source's tests.    *)
(* A rotation is kept as its Euler angles in degrees, the argument of      *)
(* Quaternion.FromEulerAngles.                                             *)
(***************************************************************************)
EXTENDS Integers, Sequences, FiniteSets, TLC

VARIABLES params, dataFiles, defaultsFile, missing, HatDatabase, sessionStarted,
          menu, actors, attachedHats, thrown, requests, lastEvent

vars == <<params, dataFiles, defaultsFile, missing, HatDatabase, sessionStarted,
          menu, actors, attachedHats, thrown, requests, lastEvent>>

(***************************************************************************)
(* Bounds                                                                  *)
(***************************************************************************)
\* largest number of keys in defaults.json and in a kit's data file
MaxFileKeys == 2
\* largest number of hats created by wearHat in one behaviour
MaxHats == 3

Users == {"u1", "u2"}
\* the keys that may occur in the JSON files
FileKeys == {"clear!", "hat", "cap"}
\* every id wearHat may be called with; "ghost" is in no file
HatIds == FileKeys \cup {"ghost"}
Kits == {"city_helmets", "space_helmets", "other", "absent"}

Range(s) == {s[i] : i \in 1..Len(s)}

(***************************************************************************)
(* JavaScript objects with string keys: the keys in insertion order and    *)
(* the value of each key.                                                  *)
(***************************************************************************)
\* a map without keys
EmptyMap == [x \in {} |-> 0]

EmptyObj == [keys |-> <<>>, val |-> EmptyMap]

HasKey(o, k) == k \in Range(o.keys)

\* Object.keys(o)
ObjectKeys(o) == o.keys

\* o[k] = v
SetProp(o, k, v) ==
    IF HasKey(o, k)
    THEN [keys |-> o.keys,
          val  |-> [x \in Range(o.keys) |-> IF x = k THEN v ELSE o.val[x]]]
    ELSE [keys |-> Append(o.keys, k),
          val  |-> [x \in Range(o.keys) \cup {k} |-> IF x = k THEN v ELSE o.val[x]]]

RECURSIVE CopyProps(_, _, _)
\* copy the own properties of source, from its i-th key on, into target
CopyProps(target, source, i) ==
    IF i > Len(source.keys) THEN target
    ELSE CopyProps(SetProp(target, source.keys[i], source.val[source.keys[i]]),
                   source, i + 1)

RECURSIVE ObjectAssign(_, _)
\* Object.assign(target, ...sources): the sources are applied left to right
ObjectAssign(target, sources) ==
    IF sources = <<>> THEN target
    ELSE ObjectAssign(CopyProps(target, Head(sources), 1), Tail(sources))

(***************************************************************************)
(* The JSON files.  A HatDescriptor is [resourceId, scale, rotation,       *)
(* position].                                                              *)
(***************************************************************************)
Desc(r, s, rot, p) == [resourceId |-> r, scale |-> s, rotation |-> rot, position |-> p]

\* the descriptor of a key in defaults.json
DefaultDesc(k) ==
    CASE k = "clear!" -> Desc("dflt", <<20, 20, 20>>, <<0, 90, 0>>, <<0, 5, 0>>)
      [] k = "hat"    -> Desc("", <<>>, <<>>, <<>>)
      [] OTHER        -> Desc("dcap", <<>>, <<0, 30, 0>>, <<>>)

\* the descriptor of every key of a data file
DataDesc(file) ==
    CASE file = "city"  -> Desc("city", <<>>, <<>>, <<>>)
      [] file = "space" -> Desc("space", <<10, 10, 10>>, <<0, 45, 0>>, <<0, 2, 0>>)
      [] OTHER          -> Desc("all", <<12, 12, 12>>, <<>>, <<>>)

\* the sequences of distinct keys of length at most MaxFileKeys
KeySeqs ==
    UNION { { s \in [1..n -> FileKeys] : \A i, j \in 1..n : i # j => s[i] # s[j] }
            : n \in 0..MaxFileKeys }

RECURSIVE Without(_, _)
\* the keys of s that are not in ks, in the order of s
Without(s, ks) ==
    IF s = <<>> THEN <<>>
    ELSE IF Head(s) \in Range(ks) THEN Without(Tail(s), ks)
         ELSE <<Head(s)>> \o Without(Tail(s), ks)

\* the data file of a kit with the keys ks, in this order
DataFile(file, ks) == [keys |-> ks, val |-> [k \in Range(ks) |-> DataDesc(file)]]

(***************************************************************************)
(* onStarted: choosing the hat database                                    *)
(***************************************************************************)
requireData_defaultCity(kit) ==
    CASE kit = "space_helmets" -> dataFiles.space
      [] OTHER                 -> dataFiles.city

\* require('../public/data/...json') of the switch on this.params.kit
requireData(kit) ==
    CASE kit = "city_helmets"  -> dataFiles.city
      [] kit = "space_helmets" -> dataFiles.space
      [] OTHER                 -> dataFiles.all

\* a require of the switch throws: the data file of the kit (missing is
\* "data") or defaults.json (missing is "defaults") cannot be found
RequireThrows == missing # "none"

LoadHatDatabase_defaultsFirst(kit) ==
    ObjectAssign(EmptyObj, <<defaultsFile, requireData(kit)>>)

\* Object.assign({}, require(<data file>), require('../public/defaults.json'))
LoadHatDatabase(kit) ==
    ObjectAssign(EmptyObj, <<requireData(kit), defaultsFile>>)

(***************************************************************************)
(* Scene objects (actors).  An actor's id is its index in actors.          *)
(***************************************************************************)
Actor(kind, resourceId, name, parentId, position, rotation, scale, userId) ==
    [kind |-> kind, resourceId |-> resourceId, name |-> name, parentId |-> parentId,
     position |-> position, rotation |-> rotation, scale |-> scale,
     attachPoint |-> IF userId = "" THEN "" ELSE "head", userId |-> userId,
     destroyed |-> 0]

\* actor.destroy(): the number of destroy calls is kept
Destroy(acts, id) == [acts EXCEPT ![id].destroyed = @ + 1]

\* the ids ending in '!' (the test of /!$/), among HatIds
EndsWithBang(hatId) == hatId \in {"clear!"}

(***************************************************************************)
(* showHatMenu                                                             *)
(***************************************************************************)
Button_descriptorTransform(hatId, hatRecord, x, menuId) ==
    IF hatRecord.resourceId # ""
    THEN LET rotation == IF hatRecord.rotation # <<>>
                         THEN hatRecord.rotation ELSE <<0, 0, 0>>
             scale    == IF hatRecord.scale # <<>>
                         THEN hatRecord.scale ELSE <<30, 30, 30>>
         IN  Actor("library", hatRecord.resourceId, "", 0, <<x, 10, 0>>, rotation, scale, "")
    ELSE Actor("primitive", "", hatId, menuId, <<x, 0, 0>>, <<>>, <<>>, "")

Button_noCommands(hatId, hatRecord, x, menuId) ==
    IF hatRecord.resourceId # ""
    THEN Actor("library", hatRecord.resourceId, "", 0, <<x, 10, 0>>,
               <<0, 0, 0>>, <<30, 30, 30>>, "")
    ELSE Actor("primitive", "", hatId, menuId, <<x, 0, 0>>, <<>>, <<>>, "")

\* the button of one hatId at offset x; menuId is the id of the menu parent
Button(hatId, hatRecord, x, menuId) ==
    IF hatRecord.resourceId # ""
    THEN LET rotation == IF EndsWithBang(hatId) /\ hatRecord.rotation # <<>>
                         THEN hatRecord.rotation ELSE <<0, 0, 0>>
             scale    == IF EndsWithBang(hatId) /\ hatRecord.scale # <<>>
                         THEN hatRecord.scale ELSE <<30, 30, 30>>
         IN  Actor("library", hatRecord.resourceId, "", 0, <<x, 10, 0>>, rotation, scale, "")
    ELSE Actor("primitive", "", hatId, menuId, <<x, 0, 0>>, <<>>, <<>>, "")

RECURSIVE MenuLoop_skipPlaceholders(_, _, _, _, _)
MenuLoop_skipPlaceholders(db, i, x, acts, entries) ==
    IF i > Len(ObjectKeys(db)) THEN [actors |-> acts, menu |-> entries]
    ELSE LET hatId == ObjectKeys(db)[i]
             hatRecord == db.val[hatId]
         IN  IF hatRecord.resourceId = ""
             THEN MenuLoop_skipPlaceholders(db, i + 1, x, acts, entries)
             ELSE MenuLoop_skipPlaceholders(db, i + 1, x + 15,
                      Append(acts, Button(hatId, hatRecord, x, 1)),
                      Append(entries, [hatId |-> hatId, actorId |-> Len(acts) + 1]))

RECURSIVE MenuLoop_lastKeyBinding(_, _, _, _, _)
MenuLoop_lastKeyBinding(db, i, x, acts, entries) ==
    IF i > Len(ObjectKeys(db)) THEN [actors |-> acts, menu |-> entries]
    ELSE LET hatId == ObjectKeys(db)[i]
             hatRecord == db.val[hatId]
         IN  MenuLoop_lastKeyBinding(db, i + 1, x + 15,
                      Append(acts, Button(hatId, hatRecord, x, 1)),
                      Append(entries, [hatId |-> ObjectKeys(db)[Len(ObjectKeys(db))],
                                       actorId |-> Len(acts) + 1]))

RECURSIVE MenuLoop(_, _, _, _, _)
\* the for loop over Object.keys(this.HatDatabase), from the i-th key on, with
\* the running offset x; every button gets the click handler of its hatId
MenuLoop(db, i, x, acts, entries) ==
    IF i > Len(ObjectKeys(db)) THEN [actors |-> acts, menu |-> entries]
    ELSE LET hatId == ObjectKeys(db)[i]
             hatRecord == db.val[hatId]
         IN  MenuLoop(db, i + 1, x + 15,
                      Append(acts, Button(hatId, hatRecord, x, 1)),
                      Append(entries, [hatId |-> hatId, actorId |-> Len(acts) + 1]))

showHatMenu_startAtStep(db) ==
    MenuLoop(db, 1, 15, <<Actor("empty", "", "", 0, <<>>, <<>>, <<>>, "")>>, <<>>)

\* showHatMenu(): the menu parent is the first actor, then one button per key
showHatMenu(db) ==
    MenuLoop(db, 1, 0, <<Actor("empty", "", "", 0, <<>>, <<>>, <<>>, "")>>, <<>>)

(***************************************************************************)
(* The handlers, as functions of the world w = [attachedHats, actors,      *)
(* thrown, requests]: thrown is "none" or the error the handler ended with, *)
(* requests the create and destroy requests the handler has sent to the    *)
(* host, in their order.                                                   *)
(***************************************************************************)
\* this.attachedHats[userId], 0 for undefined
Get(m, userId) == IF userId \in DOMAIN m THEN m[userId] ELSE 0

\* delete this.attachedHats[userId]
Delete(m, userId) == [x \in DOMAIN m \ {userId} |-> m[x]]

\* this.attachedHats[userId] = id
Put(m, userId, id) == [x \in DOMAIN m \cup {userId} |-> IF x = userId THEN id ELSE m[x]]

World == [attachedHats |-> attachedHats, actors |-> actors, thrown |-> "none",
          requests |-> <<>>]

\* a request to the host about the actor id
Req(op, id) == [op |-> op, id |-> id]

\* the requests after actor.destroy() of the hat of userId, if there is one
DestroyReq(w, userId) ==
    IF Get(w.attachedHats, userId) # 0
    THEN Append(w.requests, Req("destroy", Get(w.attachedHats, userId)))
    ELSE w.requests

userLeft_undefinedEntry(w, userId) ==
    LET acts == IF Get(w.attachedHats, userId) # 0
                THEN Destroy(w.actors, Get(w.attachedHats, userId))
                ELSE w.actors
    IN  [w EXCEPT !.actors = acts, !.requests = DestroyReq(w, userId),
                  !.attachedHats = Put(@, userId, 0)]

userLeft_noGuard(w, userId) ==
    IF Get(w.attachedHats, userId) # 0
    THEN [w EXCEPT !.actors = Destroy(@, Get(w.attachedHats, userId)),
                   !.requests = DestroyReq(w, userId),
                   !.attachedHats = Delete(@, userId)]
    ELSE [w EXCEPT !.thrown = "TypeError"]

\* userLeft(user)
userLeft(w, userId) ==
    LET acts == IF Get(w.attachedHats, userId) # 0
                THEN Destroy(w.actors, Get(w.attachedHats, userId))
                ELSE w.actors
    IN  [w EXCEPT !.actors = acts, !.requests = DestroyReq(w, userId),
                  !.attachedHats = Delete(@, userId)]

\* wearHat, lines 192-194: the transform of a worn hat
AttachTransform(hatRecord) ==
    [position |-> IF hatRecord.position # <<>> THEN hatRecord.position ELSE <<0, 0, 0>>,
     scale    |-> IF hatRecord.scale # <<>> THEN hatRecord.scale ELSE <<15, 15, 15>>,
     rotation |-> IF hatRecord.rotation # <<>> THEN hatRecord.rotation ELSE <<0, 180, 0>>]

\* wearHat, lines 184-212: the statements after the return of the "clear!"
\* block, inside that block
AttachHat(w, hatId, userId) ==
    LET acts == IF Get(w.attachedHats, userId) # 0
                THEN Destroy(w.actors, Get(w.attachedHats, userId))
                ELSE w.actors
        hats == Delete(w.attachedHats, userId)
        reqs == DestroyReq(w, userId)
    IN  IF ~HasKey(HatDatabase, hatId)
        THEN \* hatRecord is undefined: hatRecord.position throws
             [w EXCEPT !.actors = acts, !.attachedHats = hats, !.requests = reqs,
                       !.thrown = "TypeError"]
        ELSE LET hatRecord == HatDatabase.val[hatId]
                 t == AttachTransform(hatRecord)
             IN  [w EXCEPT !.actors = Append(acts,
                                Actor("library", hatRecord.resourceId, "", 0,
                                      t.position, t.rotation, t.scale, userId)),
                           !.requests = Append(reqs, Req("create", Len(acts) + 1)),
                           !.attachedHats = Put(hats, userId, Len(acts) + 1)]

wearHat_blockClosed(w, hatId, userId) ==
    IF hatId = "clear!"
    THEN userLeft(w, userId)
    ELSE AttachHat(w, hatId, userId)

wearHat_sharedSlot(w, hatId, userId) ==
    IF hatId = "clear!"
    THEN userLeft(w, "u1")
    ELSE AttachHat(w, hatId, "u1")

wearHat_danglingEntry(w, hatId, userId) ==
    IF hatId = "clear!"
    THEN [w EXCEPT !.actors = IF Get(w.attachedHats, userId) # 0
                              THEN Destroy(w.actors, Get(w.attachedHats, userId))
                              ELSE w.actors,
                   !.requests = DestroyReq(w, userId)]
    ELSE AttachHat(w, hatId, userId)

wearHat_noReturn(w, hatId, userId) ==
    IF hatId = "clear!"
    THEN AttachHat(userLeft(w, userId), hatId, userId)
    ELSE w

wearHat_keepOld(w, hatId, userId) ==
    IF hatId = "clear!"
    THEN userLeft(w, userId)
    ELSE AttachHat([w EXCEPT !.attachedHats = Delete(@, userId)], hatId, userId)

\* wearHat(hatId, userId): the block of `if (hatId == "clear!")` runs to the
\* end of the method, so the statements after its return are never executed
\* and any other hatId does nothing
wearHat(w, hatId, userId) ==
    IF hatId = "clear!"
    THEN LET acts == IF Get(w.attachedHats, userId) # 0
                     THEN Destroy(w.actors, Get(w.attachedHats, userId))
                     ELSE w.actors
         IN  [w EXCEPT !.actors = acts, !.requests = DestroyReq(w, userId),
                       !.attachedHats = Delete(@, userId)]
    ELSE w

(***************************************************************************)
(* State machine                                                           *)
(***************************************************************************)
Event(type, hatId, userId) == [type |-> type, hatId |-> hatId, userId |-> userId]

\* the number of hats wearHat has created
HatsCreated == Cardinality({i \in 1..Len(actors) : actors[i].attachPoint = "head"})

\* the state after the constructor: the files and the kit parameter are the
\* inputs of the session; all.json holds the keys of both kits, and a file
\* that cannot be found has no keys
Init ==
    /\ params \in [kit : Kits]
    /\ \E cs, ss \in KeySeqs :
          dataFiles = [city  |-> DataFile("city", cs),
                       space |-> DataFile("space", ss),
                       all   |-> DataFile("all", cs \o Without(ss, cs))]
    /\ \E ks \in KeySeqs :
          defaultsFile = [keys |-> ks, val |-> [k \in Range(ks) |-> DefaultDesc(k)]]
    /\ missing \in {"none", "data", "defaults"}
    /\ missing = "data" => requireData(params.kit).keys = <<>>
    /\ missing = "defaults" => defaultsFile.keys = <<>>
    /\ HatDatabase = EmptyObj
    /\ sessionStarted = FALSE
    /\ menu = <<>>
    /\ actors = <<>>
    /\ attachedHats = EmptyMap
    /\ thrown = "none"
    /\ requests = <<>>
    /\ lastEvent = Event("none", "", "")

onStarted_ignoreMissing ==
    /\ ~sessionStarted
    /\ sessionStarted' = TRUE
    /\ HatDatabase' = LoadHatDatabase(params.kit)
    /\ LET r == showHatMenu(HatDatabase')
       IN  /\ actors' = r.actors
           /\ menu' = r.menu
           /\ requests' = [i \in 1..Len(r.actors) |-> Req("create", i)]
    /\ thrown' = "none"
    /\ lastEvent' = Event("started", "", "")
    /\ UNCHANGED <<params, dataFiles, defaultsFile, missing, attachedHats>>

onStarted_menuBeforeLoad ==
    /\ ~sessionStarted
    /\ sessionStarted' = TRUE
    /\ LET r == showHatMenu(HatDatabase)
       IN  /\ actors' = r.actors
           /\ menu' = r.menu
           /\ requests' = [i \in 1..Len(r.actors) |-> Req("create", i)]
    /\ IF RequireThrows
       THEN thrown' = "ModuleNotFound" /\ UNCHANGED HatDatabase
       ELSE thrown' = "none" /\ HatDatabase' = LoadHatDatabase(params.kit)
    /\ lastEvent' = Event("started", "", "")
    /\ UNCHANGED <<params, dataFiles, defaultsFile, missing, attachedHats>>

\* the onStarted callback: the switch on the kit, then started(), which shows
\* the hat menu; a require that throws ends the callback before the
\* assignment of the database and before started()
onStarted ==
    /\ ~sessionStarted
    /\ sessionStarted' = TRUE
    /\ IF RequireThrows
       THEN /\ thrown' = "ModuleNotFound"
            /\ requests' = <<>>
            /\ UNCHANGED <<HatDatabase, actors, menu>>
       ELSE /\ HatDatabase' = LoadHatDatabase(params.kit)
            /\ LET r == showHatMenu(HatDatabase')
               IN  /\ actors' = r.actors
                   /\ menu' = r.menu
                   /\ requests' = [i \in 1..Len(r.actors) |-> Req("create", i)]
            /\ thrown' = "none"
    /\ lastEvent' = Event("started", "", "")
    /\ UNCHANGED <<params, dataFiles, defaultsFile, missing, attachedHats>>

\* the handler h has run with the result r
Handled(r, ev) ==
    /\ attachedHats' = r.attachedHats
    /\ actors' = r.actors
    /\ thrown' = r.thrown
    /\ requests' = r.requests
    /\ lastEvent' = ev
    /\ UNCHANGED <<params, dataFiles, defaultsFile, missing, HatDatabase,
                   sessionStarted, menu>>

\* a click released on the i-th button by userId: its handler calls wearHat
\* with the hatId of the button
Click(i, userId) ==
    /\ i \in 1..Len(menu)
    /\ HatsCreated < MaxHats
    /\ Handled(wearHat(World, menu[i].hatId, userId),
               Event("click", menu[i].hatId, userId))

\* wearHat called with an id that no button of the menu is bound to
ForgedSelect(hatId, userId) ==
    /\ sessionStarted
    /\ hatId \notin {menu[i].hatId : i \in 1..Len(menu)}
    /\ HatsCreated < MaxHats
    /\ Handled(wearHat(World, hatId, userId), Event("forged", hatId, userId))

\* the onUserLeft callback; users are in the session only once it has started
onUserLeft(userId) ==
    /\ sessionStarted
    /\ Handled(userLeft(World, userId), Event("userLeft", "", userId))

Next ==
    \/ onStarted
    \/ \E i \in 1..Cardinality(FileKeys), userId \in Users : Click(i, userId)
    \/ \E hatId \in HatIds, userId \in Users : ForgedSelect(hatId, userId)
    \/ \E userId \in Users : onUserLeft(userId)

Spec == Init /\ [][Next]_vars

TypeOK ==
    /\ DOMAIN attachedHats \subseteq Users
    /\ \A u \in DOMAIN attachedHats : attachedHats[u] \in 1..Len(actors)
    /\ thrown \in {"none", "TypeError", "ModuleNotFound"}

(***************************************************************************)
(* Properties                                                              *)
(***************************************************************************)
\* the worn scene objects of userId that were created and not destroyed
LiveHats(acts, userId) ==
    {i \in 1..Len(acts) : acts[i].userId = userId /\ acts[i].destroyed = 0}

\* lastEvent is a call wearHat(hatId, userId)
IsSelect(ev) == ev.type \in {"click", "forged"}

\* hatId is a key of the hat database other than the clear command
RealWearable(hatId) == HasKey(HatDatabase, hatId) /\ hatId # "clear!"

\* C1: in every state, every user has at most one live worn scene object, and
\* a user's entry of attachedHats, if any, is that object
C1_AtMostOneAttachment ==
    \A u \in Users :
        /\ Cardinality(LiveHats(actors, u)) <= 1
        /\ u \in DOMAIN attachedHats => LiveHats(actors, u) \subseteq {attachedHats[u]}

\* user u1 has clicked the menu entry of a real wearable
C1_Witness ==
    /\ lastEvent.type = "click"
    /\ RealWearable(lastEvent.hatId)
    /\ lastEvent.userId = "u1"

\* C2: after wearHat(w, u) with w a key of the hat database other than
\* "clear!", u has an entry in attachedHats: a live actor created from the
\* resource of w and attached to the head of u
C2_SelectLeavesWorn ==
    (IsSelect(lastEvent) /\ RealWearable(lastEvent.hatId)) =>
        LET id == Get(attachedHats, lastEvent.userId)
        IN  /\ id # 0
            /\ actors[id].resourceId = HatDatabase.val[lastEvent.hatId].resourceId
            /\ actors[id].attachPoint = "head"
            /\ actors[id].userId = lastEvent.userId
            /\ actors[id].destroyed = 0

\* C3: when wearHat(w, u) is directly followed by wearHat(w2, u), w and w2
\* distinct real wearables, u then has exactly one attachment, it has the
\* transform of w2, and the object created for w was destroyed exactly once
C3_ReplaceStep ==
    (/\ IsSelect(lastEvent) /\ RealWearable(lastEvent.hatId)
     /\ IsSelect(lastEvent') /\ RealWearable(lastEvent'.hatId)
     /\ lastEvent'.userId = lastEvent.userId
     /\ lastEvent'.hatId # lastEvent.hatId)
    => LET u   == lastEvent.userId
           old == Get(attachedHats, u)
           new == Get(attachedHats', u)
           t   == AttachTransform(HatDatabase.val[lastEvent'.hatId])
       IN  /\ old # 0
           /\ new # 0
           /\ LiveHats(actors', u) = {new}
           /\ actors'[new].position = t.position
           /\ actors'[new].scale = t.scale
           /\ actors'[new].rotation = t.rotation
           /\ actors'[old].destroyed = 1

C3_SelectThenSelect == [][C3_ReplaceStep]_vars

\* C4: in every state and for every user u, wearHat("clear!", u) gives the
\* same attachedHats and the same actors as the clearing of userLeft(u), and
\* creates no actor
C4_SelectClearIsClear ==
    \A u \in Users :
        LET r == wearHat(World, "clear!", u)
            c == userLeft(World, u)
        IN  /\ r.attachedHats = c.attachedHats
            /\ r.actors = c.actors
            /\ Len(r.actors) = Len(actors)

\* the clear entry was clicked
C4_Witness ==
    /\ lastEvent.type = "click"
    /\ lastEvent.hatId = "clear!"

\* C5: clearing twice equals clearing once, raises no error, and clearing a
\* user without an attachment changes nothing; for the clearing of userLeft
\* and for that of wearHat("clear!", u)
C5_ClearIdempotent ==
    \A u \in Users :
        LET c == userLeft(World, u)
            r == wearHat(World, "clear!", u)
        IN  /\ userLeft(c, u) = c
            /\ c.thrown = "none"
            /\ wearHat(r, "clear!", u) = r
            /\ r.thrown = "none"
            /\ Get(attachedHats, u) = 0 => (c = World /\ r = World)

\* a user without an attachment has been cleared
C5_Witness ==
    /\ lastEvent.type = "click"
    /\ lastEvent.hatId = "clear!"
    /\ lastEvent.userId = "u2"
    /\ Get(attachedHats, "u2") = 0

\* C6: a step of onUserLeft(u) changes neither attachedHats nor actors when
\* u has no attachment; otherwise it destroys the attachment of u, and no
\* other actor, once, and removes u from attachedHats
C6_UserLeftStep ==
    \A u \in Users :
        (lastEvent' = Event("userLeft", "", u) /\ lastEvent'.type = "userLeft") =>
            LET id == Get(attachedHats, u)
            IN  /\ id = 0 => (attachedHats' = attachedHats /\ actors' = actors)
                /\ id # 0 =>
                       /\ Len(actors') = Len(actors)
                       /\ \A i \in 1..Len(actors) :
                              actors'[i] = IF i = id
                                           THEN [actors[i] EXCEPT !.destroyed = @ + 1]
                                           ELSE actors[i]
                       /\ attachedHats' = Delete(attachedHats, u)
                /\ u \notin DOMAIN attachedHats'
                /\ thrown' = "none"

C6_UserLeft == [][C6_UserLeftStep]_vars

\* a user without an attachment has left
C6_Witness ==
    /\ lastEvent.type = "userLeft"
    /\ Get(attachedHats, lastEvent.userId) = 0

\* C7: a step wearHat(w, u) with w neither a key of the hat database nor
\* "clear!" ends without an error and changes neither attachedHats nor actors
C7_UnknownStep ==
    (/\ IsSelect(lastEvent')
     /\ ~HasKey(HatDatabase, lastEvent'.hatId)
     /\ lastEvent'.hatId # "clear!")
    => /\ attachedHats' = attachedHats
       /\ actors' = actors
       /\ thrown' = "none"

C7_UnknownWearable == [][C7_UnknownStep]_vars

\* wearHat was called with an id that is not in the hat database
C7_Witness ==
    /\ lastEvent.type = "forged"
    /\ ~HasKey(HatDatabase, lastEvent.hatId)
    /\ lastEvent.hatId # "clear!"
    /\ thrown = "none"

\* the data file the kit parameter selects
SelectedData ==
    IF params.kit = "city_helmets" THEN dataFiles.city
    ELSE IF params.kit = "space_helmets" THEN dataFiles.space
    ELSE dataFiles.all

\* the session has started and the hat database was loaded
Loaded == sessionStarted /\ missing = "none"

\* the keys of both defaults.json and the selected data file
Collisions == Range(defaultsFile.keys) \cap Range(SelectedData.keys)

\* C8 as claimed: a key of both defaults.json and the kit's data file has the
\* descriptor of the kit's data file in the loaded hat database
C8_KitWins ==
    Loaded =>
        \A k \in Collisions : HatDatabase.val[k] = SelectedData.val[k]

\* C8 amended: a key of both defaults.json and the kit's data file has the
\* descriptor of defaults.json in the loaded hat database; the other keys of
\* either file keep their descriptor
C8_DefaultsWin ==
    Loaded =>
        /\ \A k \in Range(defaultsFile.keys) : HatDatabase.val[k] = defaultsFile.val[k]
        /\ \A k \in Range(SelectedData.keys) \ Range(defaultsFile.keys) :
               HatDatabase.val[k] = SelectedData.val[k]

\* a database was loaded from files with a common key and a key of each only
C8_Witness ==
    /\ Loaded
    /\ Collisions # {}
    /\ Range(defaultsFile.keys) \ Collisions # {}
    /\ Range(SelectedData.keys) \ Collisions # {}

\* C9: for every kit parameter, the keys of the loaded hat database are the
\* keys of defaults.json and of the selected data file, each once
C9_CatalogKeys ==
    Loaded =>
        /\ Range(HatDatabase.keys) = Range(defaultsFile.keys) \cup Range(SelectedData.keys)
        /\ DOMAIN HatDatabase.val = Range(HatDatabase.keys)
        /\ \A i, j \in 1..Len(HatDatabase.keys) :
               i # j => HatDatabase.keys[i] # HatDatabase.keys[j]

\* an unrecognized kit loaded all.json, which has a key of neither other file
\* and shares a key with defaults.json
C9_Witness ==
    /\ Loaded
    /\ params.kit = "other"
    /\ Range(dataFiles.all.keys) # Range(dataFiles.city.keys)
    /\ Range(dataFiles.all.keys) # Range(dataFiles.space.keys)
    /\ Collisions # {}
    /\ Len(HatDatabase.keys) = 3

\* C10: the menu has exactly one entry per key of the hat database, each
\* entry is bound to one hatId and has a button of its own
C10_OneEntryPerKey ==
    sessionStarted =>
        /\ \A k \in Range(HatDatabase.keys) :
               Cardinality({i \in 1..Len(menu) : menu[i].hatId = k}) = 1
        /\ \A i \in 1..Len(menu) : HasKey(HatDatabase, menu[i].hatId)
        /\ Len(menu) = Cardinality(Range(HatDatabase.keys))
        /\ \A i, j \in 1..Len(menu) : i # j => menu[i].actorId # menu[j].actorId
        /\ \A i \in 1..Len(menu) :
               /\ menu[i].actorId \in 2..Len(actors)
               /\ actors[menu[i].actorId].kind \in {"library", "primitive"}

\* a menu was built over a database of three keys, one without a resource
C10_Witness ==
    /\ sessionStarted
    /\ Len(HatDatabase.keys) = 3
    /\ Len(menu) = 3
    /\ \E k \in Range(HatDatabase.keys) : HatDatabase.val[k].resourceId = ""

\* C11 as claimed: after wearHat(w, u) with w a real wearable, the attachment
\* of u has the position, scale and rotation of the descriptor of w, each
\* defaulted on its own to (0,0,0), (1.5,1.5,1.5) and (0,180,0) when absent
C11_AttachDefaults ==
    (IsSelect(lastEvent) /\ RealWearable(lastEvent.hatId)) =>
        LET id  == Get(attachedHats, lastEvent.userId)
            rec == HatDatabase.val[lastEvent.hatId]
        IN  /\ id # 0
            /\ actors[id].position =
                   IF rec.position = <<>> THEN <<0, 0, 0>> ELSE rec.position
            /\ actors[id].scale =
                   IF rec.scale = <<>> THEN <<15, 15, 15>> ELSE rec.scale
            /\ actors[id].rotation =
                   IF rec.rotation = <<>> THEN <<0, 180, 0>> ELSE rec.rotation

\* the number of menu parents, one per call of showHatMenu
MenusBuilt == Cardinality({i \in 1..Len(actors) : actors[i].kind = "empty"})

\* C12, in every state: before the database is loaded there is no menu entry
\* and no click was handled; showHatMenu ran at most once, and once the
\* database is loaded exactly once, over the keys of the loaded database
C12_MenuAfterLoad ==
    /\ ~Loaded => (menu = <<>> /\ HatDatabase = EmptyObj /\ lastEvent.type # "click")
    /\ MenusBuilt <= 1
    /\ Loaded => /\ MenusBuilt = 1
                 /\ {menu[i].hatId : i \in 1..Len(menu)} = Range(HatDatabase.keys)
                 /\ Len(menu) = Len(HatDatabase.keys)

\* C12, in every step: once the session has started, no event changes the
\* hat database or the menu
C12_StaticStep ==
    sessionStarted => (HatDatabase' = HatDatabase /\ menu' = menu)

C12_SessionOrdering == [](C12_MenuAfterLoad) /\ [][C12_StaticStep]_vars

\* an event was handled after a database with keys was loaded
C12_Witness ==
    /\ Loaded
    /\ Len(HatDatabase.keys) >= 2
    /\ lastEvent.type \in {"click", "userLeft"}

\* C13: when a require of the switch throws at session start, no actor and no
\* menu entry is ever created, the database stays empty and so does
\* attachedHats; the callback ends with the error
C13_ConfigurationMissing ==
    (sessionStarted /\ missing # "none") =>
        /\ menu = <<>>
        /\ actors = <<>>
        /\ HatDatabase = EmptyObj
        /\ attachedHats = EmptyMap
        /\ lastEvent.type = "started" => thrown = "ModuleNotFound"

\* the session started without the data file of the kit, defaults.json
\* having keys
C13_Witness ==
    /\ sessionStarted
    /\ missing = "data"
    /\ lastEvent.type = "started"
    /\ Len(defaultsFile.keys) = 2

\* C14, in every state: the i-th menu entry is bound to the i-th key of the
\* database, the key its button was created for
C14_BoundToOwnKey ==
    Loaded =>
        \A i \in 1..Len(menu) :
            LET k == HatDatabase.keys[i]
                b == actors[menu[i].actorId]
            IN  /\ menu[i].hatId = k
                /\ b.kind = "primitive" => b.name = k
                /\ b.kind = "library" => b.resourceId = HatDatabase.val[k].resourceId
                /\ b.position[1] = 15 * (i - 1)

\* C14, in every step: a click is handled as wearHat(w, u) with w the key of
\* one menu entry and u the clicking user
C14_ClickStep ==
    lastEvent'.type = "click" =>
        \E i \in 1..Len(menu) :
            LET r == wearHat(World, HatDatabase.keys[i], lastEvent'.userId)
            IN  /\ lastEvent'.hatId = HatDatabase.keys[i]
                /\ attachedHats' = r.attachedHats
                /\ actors' = r.actors
                /\ requests' = r.requests

C14_ClickBinding == [](C14_BoundToOwnKey) /\ [][C14_ClickStep]_vars

\* user u2 has clicked the first of three menu entries
C14_Witness ==
    /\ Loaded
    /\ Len(menu) = 3
    /\ lastEvent = Event("click", HatDatabase.keys[1], "u2")

\* the i-th menu entry has a library resource
ResourceEntry(i) == HatDatabase.val[menu[i].hatId].resourceId # ""

\* C15: every menu entry with a resource and an id that does not end in '!'
\* has scale (3,3,3) and rotation (0,0,0)
C15_NonCommandTransform ==
    Loaded =>
        \A i \in 1..Len(menu) :
            (ResourceEntry(i) /\ ~EndsWithBang(menu[i].hatId)) =>
                /\ actors[menu[i].actorId].scale = <<30, 30, 30>>
                /\ actors[menu[i].actorId].rotation = <<0, 0, 0>>

\* such an entry whose descriptor has a scale and a rotation of its own
C15_Witness ==
    /\ Loaded
    /\ \E i \in 1..Len(menu) :
           /\ ResourceEntry(i)
           /\ ~EndsWithBang(menu[i].hatId)
           /\ HatDatabase.val[menu[i].hatId].scale = <<10, 10, 10>>
           /\ HatDatabase.val[menu[i].hatId].rotation = <<0, 45, 0>>

\* C16 as claimed: every menu entry with a resource and an id ending in '!'
\* has the scale, the rotation and the position of its descriptor, each when
\* the descriptor has it
C16_CommandOwnTransform ==
    Loaded =>
        \A i \in 1..Len(menu) :
            (ResourceEntry(i) /\ EndsWithBang(menu[i].hatId)) =>
                LET rec == HatDatabase.val[menu[i].hatId]
                    b   == actors[menu[i].actorId]
                IN  /\ rec.scale # <<>> => b.scale = rec.scale
                    /\ rec.rotation # <<>> => b.rotation = rec.rotation
                    /\ rec.position # <<>> => b.position = rec.position

\* C16 amended: such an entry has the scale and the rotation of its
\* descriptor, each when the descriptor has it; its position is the layout
\* position (offset, 1, 0), whatever position the descriptor has
C16_CommandScaleRotation ==
    Loaded =>
        \A i \in 1..Len(menu) :
            (ResourceEntry(i) /\ EndsWithBang(menu[i].hatId)) =>
                LET rec == HatDatabase.val[menu[i].hatId]
                    b   == actors[menu[i].actorId]
                IN  /\ rec.scale # <<>> => b.scale = rec.scale
                    /\ rec.rotation # <<>> => b.rotation = rec.rotation
                    /\ b.position = <<15 * (i - 1), 10, 0>>

\* a command entry whose descriptor has a scale, a rotation and a position
C16_Witness ==
    /\ Loaded
    /\ \E i \in 1..Len(menu) :
           /\ ResourceEntry(i)
           /\ EndsWithBang(menu[i].hatId)
           /\ HatDatabase.val[menu[i].hatId].scale = <<20, 20, 20>>
           /\ HatDatabase.val[menu[i].hatId].rotation = <<0, 90, 0>>
           /\ HatDatabase.val[menu[i].hatId].position = <<0, 5, 0>>

\* C17: the k-th button created (k from 0) is at offset 1.5 * k, at height 1
\* when it has a resource and 0 when it is a placeholder, and at depth 0
C17_Layout ==
    Loaded =>
        \A i \in 1..Len(menu) :
            LET b == actors[menu[i].actorId]
            IN  /\ menu[i].actorId = i + 1
                /\ b.position = <<15 * (i - 1), IF b.kind = "library" THEN 10 ELSE 0, 0>>
                /\ \A j \in 1..Len(menu) :
                       j # i => actors[menu[j].actorId].position[1] # b.position[1]

\* a menu of three entries with a placeholder between two resource entries
C17_Witness ==
    /\ Loaded
    /\ Len(menu) = 3
    /\ actors[menu[1].actorId].kind = "library"
    /\ actors[menu[2].actorId].kind = "primitive"
    /\ actors[menu[3].actorId].kind = "library"

\* C18 as claimed: a wearHat(w, u) of a real wearable for a user u who wears
\* a hat (u has an entry in attachedHats, or the preceding event was a
\* wearHat of a real wearable by u) sends the destroy request of the old
\* actor and then the create request of the new one, the entry of u being
\* the new actor afterwards and the only live hat of u
C18_ReplaceOrderStep ==
    (/\ IsSelect(lastEvent') /\ RealWearable(lastEvent'.hatId)
     /\ \/ Get(attachedHats, lastEvent'.userId) # 0
        \/ /\ IsSelect(lastEvent) /\ RealWearable(lastEvent.hatId)
           /\ lastEvent.userId = lastEvent'.userId)
    => LET u   == lastEvent'.userId
           old == Get(attachedHats, u)
           new == Get(attachedHats', u)
       IN  /\ old # 0
           /\ new = Len(actors) + 1
           /\ requests' = <<Req("destroy", old), Req("create", new)>>
           /\ actors'[old].destroyed = 1
           /\ LiveHats(actors', u) = {new}

C18_ReplaceOrder == [][C18_ReplaceOrderStep]_vars

\* the users other than userId keep their entry of attachedHats and their
\* actors from this state to the next, and get no new actor
OthersUntouched(userId) ==
    \A v \in Users \ {userId} :
        /\ (v \in DOMAIN attachedHats') = (v \in DOMAIN attachedHats)
        /\ Get(attachedHats', v) = Get(attachedHats, v)
        /\ Len(actors') >= Len(actors)
        /\ \A i \in 1..Len(actors) : actors[i].userId = v => actors'[i] = actors[i]
        /\ \A i \in (Len(actors) + 1)..Len(actors') : actors'[i].userId # v
        /\ \A i \in 1..Len(requests') :
               requests'[i].id \in 1..Len(actors') =>
                   actors'[requests'[i].id].userId # v

\* C19: a step that handles an event of user u (a wearHat of any id, or
\* userLeft) leaves the other users untouched
C19_IsolationStep ==
    lastEvent'.type \in {"click", "forged", "userLeft"} =>
        OthersUntouched(lastEvent'.userId)

C19_PerUserIsolation == [][C19_IsolationStep]_vars

\* user u2 has clicked an entry of a menu of two or more entries
C19_Witness ==
    /\ lastEvent.type = "click"
    /\ lastEvent.userId = "u2"
    /\ Len(menu) >= 2

\* the actors created by wearHat and not destroyed
LiveWorn == {i \in 1..Len(actors) : actors[i].attachPoint = "head" /\ actors[i].destroyed = 0}

\* C20: the live actors created by wearHat are exactly the values of
\* attachedHats, one user each; no actor was destroyed twice; before the
\* first event attachedHats is empty
C20_NoOrphanNoDangling ==
    /\ LiveWorn = {attachedHats[u] : u \in DOMAIN attachedHats}
    /\ \A u \in DOMAIN attachedHats : actors[attachedHats[u]].userId = u
    /\ \A i \in 1..Len(actors) : actors[i].destroyed <= 1
    /\ lastEvent.type = "none" => attachedHats = EmptyMap

\* user u2 has left a session with a menu
C20_Witness ==
    /\ Loaded
    /\ lastEvent.type = "userLeft"
    /\ lastEvent.userId = "u2"
    /\ Len(menu) >= 1

====
